---- MODULE Spec2Model ----
(***************************************************************************)
(* A model of pywikibot_extensions.page: get_redirects with its lru_cache, *)
(* Page.has_template, FilePage.using_pages and Page.save_bot_start_end.    *)
(* The wiki (pywikibot and the site behind it) is the collaborator: its    *)
(* state is the set of existing pages, each page's redirect target and the *)
(* failure it is about to answer one kind of query with.                   *)
(***************************************************************************)
EXTENDS Integers, Sequences, FiniteSets, TLC

\* ------------------------------------------------------------------ bounds
NPages == 3       \* pages of the wiki, 1..NPages
MaxSeeds == 2     \* seeds (or templates) of one call
FaultAfter == 1   \* pages a failing enumeration yields before it fails
MaxUsing == 3     \* pages the underlying using_pages enumerates
MaxChunks == 3    \* pieces a page text is put together from
MaxText == 3      \* characters of the text handed to save_bot_start_end
MaxItems == 3     \* items handed to iterable_to_wikitext
\* functools.lru_cache() keeps at most 128 entries; the model keeps
\* maxsize entries so that a full cache is reached with a few keys.
maxsize == 1

\* ------------------------------------------------------------------ values
Pages == 1..NPages
NoPage == 0
None == -1        \* namespaces=None: no namespace filter
\* Odd pages are templates (namespace 10), even pages articles (namespace 0).
nsOf(p) == IF p % 2 = 1 THEN 10 ELSE 0
NamespaceType == {None, 10}
SeedSets == {S \in SUBSET Pages : Cardinality(S) <= MaxSeeds}
Keys == [pages : SeedSets, namespaces : NamespaceType]

\* The collaborator's queries, and how one of them may fail.
Ops == {"isRedirectPage", "getRedirectTarget", "exists", "redirects", "templates"}
NoFault == [kind |-> "none", op |-> "none", page |-> NoPage]
CircularFaults == [kind : {"circular"}, op : Ops \ {"templates"}, page : Pages]
OtherFaults == [kind : {"other"}, op : Ops \ {"templates"}, page : Pages]
                 \cup {[kind |-> "other", op |-> "templates", page |-> NoPage]}

VARIABLES
    exists,     \* the pages that exist
    redir,      \* redir[p]: the page p redirects to, NoPage when p is no redirect
    fault,      \* the failure the collaborator answers one query with
    transcl,    \* the templates the page asked about by has_template transcludes
    cache,      \* lru_cache of get_redirects: entries, most recently used first
    last,       \* the last operation and what it gave its caller
    arg,        \* the arguments of a call of using_pages or save_bot_start_end
    ret         \* what that call yielded or left on its page

vars == <<exists, redir, fault, transcl, cache, last, arg, ret>>

\* The wiki keeps a redirect only on a page that exists.
WikiOK(ex, rd) == \A p \in Pages : rd[p] # NoPage => p \in ex
Wikis == {w \in [exists : SUBSET Pages, redir : [Pages -> Pages \cup {NoPage}]] :
            WikiOK(w.exists, w.redir)}

\* ------------------------------------------------------ the collaborator
\* What a query op on page p fails with: "none", "circular" or "other".
\* getRedirectTarget raises CircularRedirectError on a page that redirects
\* to itself.
FaultAt(op, p) ==
    IF fault.op = op /\ fault.page \in {p, NoPage} THEN fault.kind
    ELSE IF op = "getRedirectTarget" /\ redir[p] = p THEN "circular"
    ELSE "none"

isRedirectPage(p) == redir[p] # NoPage
getRedirectTarget(p) == redir[p]

RECURSIVE SortedSeq(_)
\* The pages of S in ascending order.
SortedSeq(S) ==
    IF S = {} THEN <<>>
    ELSE LET m == CHOOSE x \in S : \A y \in S : x <= y
         IN <<m>> \o SortedSeq(S \ {m})

\* page.redirects(namespaces=ns): the pages redirecting to p, in the
\* collaborator's order, restricted to the namespace ns unless it is None.
redirects(p, ns) ==
    SortedSeq({q \in Pages : redir[q] = p /\ (ns = None \/ nsOf(q) = ns)})

Range(s) == {s[i] : i \in 1..Len(s)}
Prefix(s, n) == SubSeq(s, 1, IF n < Len(s) THEN n ELSE Len(s))

\* -------------------------------------------------- get_redirects, the body
RECURSIVE FollowRedirects_raising(_, _, _)
\* FollowRedirects without the suppress: a CircularRedirectError ends the call.
FollowRedirects_raising(page, seen, q) ==
    IF FaultAt("isRedirectPage", page) # "none"
    THEN [st |-> "raise", page |-> page, q |-> q + 1]
    ELSE IF ~isRedirectPage(page)
    THEN [st |-> "ok", page |-> page, q |-> q + 1]
    ELSE IF FaultAt("getRedirectTarget", page) # "none"
    THEN [st |-> "raise", page |-> page, q |-> q + 2]
    ELSE IF getRedirectTarget(page) \in seen \cup {page}
    THEN [st |-> "hang", page |-> page, q |-> q + 2]
    ELSE FollowRedirects_raising(getRedirectTarget(page), seen \cup {page}, q + 2)

\* A step of the body gives [st, page, q]: st is "ok", "raise" (a failure
\* reaches the caller) or "hang" (the loop never ends); q counts the queries.
RECURSIVE FollowRedirects(_, _, _)
\* while page.isRedirectPage(): page = page.getRedirectTarget()
\* under suppress(CircularRedirectError). seen holds the pages the loop has
\* already tested: the loop's only state is page, so arriving at a page of
\* seen again repeats the same iterations for ever.
FollowRedirects(page, seen, q) ==
    IF FaultAt("isRedirectPage", page) = "other"
    THEN [st |-> "raise", page |-> page, q |-> q + 1]
    ELSE IF FaultAt("isRedirectPage", page) = "circular"
    THEN [st |-> "ok", page |-> page, q |-> q + 1]
    ELSE IF ~isRedirectPage(page)
    THEN [st |-> "ok", page |-> page, q |-> q + 1]
    ELSE IF FaultAt("getRedirectTarget", page) = "other"
    THEN [st |-> "raise", page |-> page, q |-> q + 2]
    ELSE IF FaultAt("getRedirectTarget", page) = "circular"
    THEN [st |-> "ok", page |-> page, q |-> q + 2]
    ELSE IF getRedirectTarget(page) \in seen \cup {page}
    THEN [st |-> "hang", page |-> page, q |-> q + 2]
    ELSE FollowRedirects(getRedirectTarget(page), seen \cup {page}, q + 2)

\* SeedStep with every failure of the enumeration suppressed, not only
\* CircularRedirectError.
SeedStep_suppressAll(seed, ns, link_pages, q) ==
    LET f == FollowRedirects(seed, {}, q)
        page == f.page
        reds == redirects(page, ns)
    IN  IF f.st # "ok"
        THEN [st |-> f.st, link_pages |-> link_pages, q |-> f.q]
        ELSE IF FaultAt("exists", page) # "none"
        THEN [st |-> "raise", link_pages |-> link_pages, q |-> f.q + 1]
        ELSE IF page \notin exists
        THEN [st |-> "ok", link_pages |-> link_pages, q |-> f.q + 1]
        ELSE IF FaultAt("redirects", page) # "none"
        THEN [st |-> "ok",
              link_pages |-> link_pages \cup {page}
                                \cup Range(Prefix(reds, FaultAfter)),
              q |-> f.q + 2]
        ELSE [st |-> "ok",
              link_pages |-> link_pages \cup {page} \cup Range(reds),
              q |-> f.q + 2]

\* SeedStep without `if not page.exists(): continue`.
SeedStep_noExists(seed, ns, link_pages, q) ==
    LET f == FollowRedirects(seed, {}, q)
    IN  IF f.st # "ok"
        THEN [st |-> f.st, link_pages |-> link_pages, q |-> f.q]
        ELSE [st |-> "ok",
              link_pages |-> link_pages \cup {f.page} \cup Range(redirects(f.page, ns)),
              q |-> f.q + 1]

\* One iteration of `for page in pages`, from link_pages to the new
\* link_pages: [st, link_pages, q].
SeedStep(seed, ns, link_pages, q) ==
    LET f == FollowRedirects(seed, {}, q)
        page == f.page
        reds == redirects(page, ns)
    IN  IF f.st # "ok"
        THEN [st |-> f.st, link_pages |-> link_pages, q |-> f.q]
        ELSE IF FaultAt("exists", page) # "none"
        THEN [st |-> "raise", link_pages |-> link_pages, q |-> f.q + 1]
        ELSE IF page \notin exists
        THEN [st |-> "ok", link_pages |-> link_pages, q |-> f.q + 1]
        ELSE IF FaultAt("redirects", page) = "other"
        THEN [st |-> "raise", link_pages |-> link_pages \cup {page}, q |-> f.q + 2]
        ELSE IF FaultAt("redirects", page) = "circular"
        THEN [st |-> "ok",
              link_pages |-> link_pages \cup {page}
                                \cup Range(Prefix(reds, FaultAfter)),
              q |-> f.q + 2]
        ELSE [st |-> "ok",
              link_pages |-> link_pages \cup {page} \cup Range(reds),
              q |-> f.q + 2]

\* SeedLoop that returns after its first seed.
SeedLoop_firstOnly(ord, ns, link_pages, q) ==
    IF ord = <<>> THEN [st |-> "ok", link_pages |-> link_pages, q |-> q]
    ELSE SeedStep(Head(ord), ns, link_pages, q)

RECURSIVE SeedLoop(_, _, _, _)
\* for page in pages: ..., over the seeds in the order ord the set yields them.
SeedLoop(ord, ns, link_pages, q) ==
    IF ord = <<>> THEN [st |-> "ok", link_pages |-> link_pages, q |-> q]
    ELSE LET s == SeedStep(Head(ord), ns, link_pages, q)
         IN  IF s.st # "ok" THEN s
             ELSE SeedLoop(Tail(ord), ns, s.link_pages, s.q)

\* The orders a frozenset may yield its pages in.
Orders(S) == {o \in [1..Cardinality(S) -> S] : \A x \in S : \E i \in DOMAIN o : o[i] = x}

\* The body of get_redirects: [st, link_pages, q].
get_redirects_body(ord, ns) == SeedLoop(ord, ns, {}, 0)


\* --------------------------------------------------------- the lru_cache
NoKey == [pages |-> {}, namespaces |-> -2]
CachedKeys(c) == {c[i].key : i \in 1..Len(c)}
CacheIndex(c, key) == CHOOSE i \in 1..Len(c) : c[i].key = key
CacheValue(c, key) == c[CacheIndex(c, key)].val
Without(c, i) == SubSeq(c, 1, i - 1) \o SubSeq(c, i + 1, Len(c))

\* A hit moves the entry to the most recently used end.
CacheTouch(c, key) == <<c[CacheIndex(c, key)]>> \o Without(c, CacheIndex(c, key))
\* A miss stores the result, dropping the least recently used entry of a
\* full cache.
CacheStore(c, key, val) ==
    <<[key |-> key, val |-> val]>>
        \o (IF Len(c) >= maxsize THEN SubSeq(c, 1, maxsize - 1) ELSE c)
\* Whether that store drops an entry.
CacheFull(c) == Len(c) >= maxsize

\* get_redirects without its cache: every call runs the body.
get_redirects_uncached(key, ord) ==
    LET b == get_redirects_body(ord, key.namespaces)
    IN  IF b.st = "ok"
        THEN [st |-> "ok", result |-> b.link_pages, hit |-> FALSE, q |-> b.q,
              evicted |-> CacheFull(cache),
              cache |-> CacheStore(cache, key, b.link_pages)]
        ELSE [st |-> b.st, result |-> {}, hit |-> FALSE, q |-> b.q,
              evicted |-> FALSE, cache |-> cache]

\* What a call of the cached get_redirects gives, and the cache after it:
\* [st, result, hit, q, evicted, cache].
get_redirects(key, ord) ==
    IF key \in CachedKeys(cache)
    THEN [st |-> "ok", result |-> CacheValue(cache, key), hit |-> TRUE, q |-> 0,
          evicted |-> FALSE, cache |-> CacheTouch(cache, key)]
    ELSE LET b == get_redirects_body(ord, key.namespaces)
         IN  IF b.st = "ok"
             THEN [st |-> "ok", result |-> b.link_pages, hit |-> FALSE, q |-> b.q,
                   evicted |-> CacheFull(cache),
                   cache |-> CacheStore(cache, key, b.link_pages)]
             ELSE [st |-> b.st, result |-> {}, hit |-> FALSE, q |-> b.q,
                   evicted |-> FALSE, cache |-> cache]

\* ------------------------------------------------------------ has_template
\* A template is given as a page or as a name; Page(self.site, tpl, ns=10)
\* makes of a name the page of that title in the Template namespace.
TemplateNames == {p \in Pages : nsOf(p) = 10}
TemplatePage(name) == CHOOSE p \in Pages : nsOf(p) = 10 /\ p = name
Items == [isPage : {TRUE}, id : Pages] \cup [isPage : {FALSE}, id : TemplateNames]
\* templates is one name (a str) or a collection of items.
TemplateArgs ==
    [isStr : {TRUE}, name : TemplateNames, items : {{}}]
        \cup [isStr : {FALSE}, name : {NoPage},
              items : {S \in SUBSET Items : Cardinality(S) <= MaxSeeds}]
\* frozenset(tpl if isinstance(tpl, Page) else Page(site, tpl, ns=10) ...)
TemplatePages(templates) ==
    IF templates.isStr THEN {TemplatePage(templates.name)}
    ELSE {IF it.isPage THEN it.id ELSE TemplatePage(it.id) : it \in templates.items}

\* has_template that looks for the templates as given, not for their closure.
has_template_direct(templates, ord) ==
    LET key == [pages |-> TemplatePages(templates), namespaces |-> None]
        r == get_redirects(key, ord)
    IN  IF r.st # "ok"
        THEN [st |-> r.st, answer |-> FALSE, closure |-> {}, hit |-> r.hit,
              q |-> r.q, evicted |-> r.evicted, cache |-> r.cache]
        ELSE IF FaultAt("templates", NoPage) # "none"
        THEN [st |-> "raise", answer |-> FALSE, closure |-> {}, hit |-> r.hit,
              q |-> r.q + 1, evicted |-> r.evicted, cache |-> r.cache]
        ELSE [st |-> "ok", answer |-> (TemplatePages(templates) \cap transcl # {}),
              closure |-> r.result, hit |-> r.hit,
              q |-> r.q + 1, evicted |-> r.evicted, cache |-> r.cache]

\* [st, answer, closure, hit, q, evicted, cache]
has_template(templates, ord) ==
    LET key == [pages |-> TemplatePages(templates), namespaces |-> None]
        r == get_redirects(key, ord)
    IN  IF r.st # "ok"
        THEN [st |-> r.st, answer |-> FALSE, closure |-> {}, hit |-> r.hit,
              q |-> r.q, evicted |-> r.evicted, cache |-> r.cache]
        ELSE IF FaultAt("templates", NoPage) # "none"
        THEN [st |-> "raise", answer |-> FALSE, closure |-> {}, hit |-> r.hit,
              q |-> r.q + 1, evicted |-> r.evicted, cache |-> r.cache]
        ELSE [st |-> "ok", answer |-> (r.result \cap transcl # {}),
              closure |-> r.result, hit |-> r.hit,
              q |-> r.q + 1, evicted |-> r.evicted, cache |-> r.cache]

\* ----------------------------------------------------------------- actions
\* The program runs one call at a time: a call that hangs leaves nothing
\* after it.
Running == last.st # "hang"
\* How a call stands to the cache_clear just before it: "no" when none was,
\* else whether the clear dropped an entry of the call's key ("fresh" when
\* not) and whether the call gives what that entry held ("same", "changed").
AfterClear(key, r) ==
    IF last.op # "cache_clear" THEN "no"
    ELSE IF key \notin CachedKeys(last.dropped) THEN "fresh"
    ELSE IF r.st = "ok" /\ r.result = CacheValue(last.dropped, key) THEN "same"
    ELSE "changed"

\* get_redirects(pages, namespaces), the set yielding its pages in order ord.
GetRedirects(pages, ns, ord) ==
    LET key == [pages |-> pages, namespaces |-> ns]
    IN  \E r \in {get_redirects(key, ord)} :
        /\ Running
        /\ cache' = r.cache
        /\ last' = [op |-> "get_redirects", key |-> key, st |-> r.st,
                    result |-> r.result, hit |-> r.hit, queried |-> r.q > 0,
                    evicted |-> r.evicted, answer |-> FALSE, stale |-> FALSE,
                    afterClear |-> AfterClear(key, r), dropped |-> <<>>]
        /\ UNCHANGED <<exists, redir, fault, transcl, arg, ret>>

\* page.has_template(templates)
HasTemplate(templates, ord) ==
    \E r \in {has_template(templates, ord)} :
        /\ Running
        /\ cache' = r.cache
        /\ last' = [op |-> "has_template",
                    key |-> [pages |-> TemplatePages(templates), namespaces |-> None],
                    st |-> r.st, result |-> r.closure, hit |-> r.hit,
                    queried |-> r.q > 0,
                    evicted |-> r.evicted, answer |-> r.answer, stale |-> FALSE,
                    afterClear |-> "no", dropped |-> <<>>]
        /\ UNCHANGED <<exists, redir, fault, transcl, arg, ret>>

\* cache_clear that leaves the entries in place.
CacheClear_keep ==
    /\ Running
    /\ cache' = cache
    /\ last' = [op |-> "cache_clear", key |-> NoKey, st |-> "ok", result |-> {},
                hit |-> FALSE, queried |-> FALSE, evicted |-> FALSE,
                answer |-> FALSE, stale |-> FALSE, afterClear |-> "no",
                dropped |-> cache]
    /\ UNCHANGED <<exists, redir, fault, transcl, arg, ret>>

\* get_redirects.cache_clear()
CacheClear ==
    /\ Running
    /\ cache' = <<>>
    /\ last' = [op |-> "cache_clear", key |-> NoKey, st |-> "ok", result |-> {},
                hit |-> FALSE, queried |-> FALSE, evicted |-> FALSE,
                answer |-> FALSE, stale |-> FALSE, afterClear |-> "no",
                dropped |-> cache]
    /\ UNCHANGED <<exists, redir, fault, transcl, arg, ret>>

\* The wiki changes between two calls: a page is created, ...
Create(p) ==
    /\ Running /\ p \notin exists
    /\ exists' = exists \cup {p}
    /\ last' = [last EXCEPT !.stale = TRUE]
    /\ UNCHANGED <<redir, fault, transcl, cache, arg, ret>>

\* ... deleted, ...
Delete(p) ==
    /\ Running /\ p \in exists
    /\ exists' = exists \ {p}
    /\ redir' = [redir EXCEPT ![p] = NoPage]
    /\ last' = [last EXCEPT !.stale = TRUE]
    /\ UNCHANGED <<fault, transcl, cache, arg, ret>>

\* ... or made a redirect to t (a plain page again when t is NoPage).
Retarget(p, t) ==
    /\ Running /\ p \in exists /\ redir[p] # t
    /\ redir' = [redir EXCEPT ![p] = t]
    /\ last' = [last EXCEPT !.stale = TRUE]
    /\ UNCHANGED <<exists, fault, transcl, cache, arg, ret>>

NoOp == [op |-> "none", key |-> NoKey, st |-> "ok", result |-> {},
         hit |-> FALSE, queried |-> FALSE, evicted |-> FALSE, answer |-> FALSE,
         stale |-> FALSE, afterClear |-> "no", dropped |-> <<>>]

NoArg == [op |-> "none"]
NoRet == [done |-> FALSE]

\* ---------------------------------------------------------- specifications
\* The closure on a wiki that stays as it is, cycle failures included.
Init ==
    /\ \E w \in Wikis : exists = w.exists /\ redir = w.redir
    /\ fault \in {NoFault} \cup CircularFaults
    /\ transcl = {}
    /\ cache = <<>>
    /\ last = NoOp
    /\ arg = NoArg /\ ret = NoRet

Next ==
    \/ \E pages \in SeedSets, ns \in NamespaceType :
         \E ord \in Orders(pages) : GetRedirects(pages, ns, ord)
    \/ CacheClear

Spec == Init /\ [][Next]_vars

\* The calls on a wiki whose queries fail with something else.
ErrInit ==
    /\ \E w \in Wikis : exists = w.exists /\ redir = w.redir
    /\ fault \in {NoFault} \cup OtherFaults
    /\ transcl = {1}
    /\ cache = <<>>
    /\ last = NoOp
    /\ arg = NoArg /\ ret = NoRet

ErrNext ==
    \/ \E pages \in SeedSets : \E ord \in Orders(pages) : GetRedirects(pages, None, ord)
    \/ \E t \in TemplateArgs : \E ord \in Orders(TemplatePages(t)) : HasTemplate(t, ord)
    \/ CacheClear

ErrSpec == ErrInit /\ [][ErrNext]_vars

\* has_template on every wiki and every set of transcluded templates.
TemplInit ==
    /\ \E w \in Wikis : exists = w.exists /\ redir = w.redir
    /\ fault = NoFault
    /\ transcl \in SUBSET Pages
    /\ cache = <<>>
    /\ last = NoOp
    /\ arg = NoArg /\ ret = NoRet

TemplNext ==
    \/ \E t \in TemplateArgs : \E ord \in Orders(TemplatePages(t)) : HasTemplate(t, ord)
    \/ CacheClear

TemplSpec == TemplInit /\ [][TemplNext]_vars

\* The cache while the wiki changes.
CacheInit ==
    /\ \E w \in Wikis : exists = w.exists /\ redir = w.redir
    /\ fault = NoFault
    /\ transcl = {}
    /\ cache = <<>>
    /\ last = NoOp
    /\ arg = NoArg /\ ret = NoRet

CacheNext ==
    \/ \E pages \in SeedSets, ns \in NamespaceType :
         \E ord \in Orders(pages) : GetRedirects(pages, ns, ord)
    \/ CacheClear
    \/ \E p \in Pages : Create(p)
    \/ \E p \in Pages : Delete(p)
    \/ \E p \in Pages, t \in Pages \cup {NoPage} : Retarget(p, t)

CacheSpec == CacheInit /\ [][CacheNext]_vars

\* ----------------------------------------------------- FilePage.using_pages
\* The file itself and another file, as redirect targets.
SelfFile == 1
OtherFile == 2
NoTotal == -1     \* no total given (kwargs.pop("total", None))
\* A page the underlying enumeration gives: its namespace, the page it
\* redirects to (NoPage when it is no redirect) and the query, if any, that
\* the collaborator answers with a pywikibot Error.
UsingKinds ==
    {k \in [ns : {0, 6}, target : {NoPage, SelfFile, OtherFile},
            err : {"none", "isRedirectPage", "getRedirectTarget"}] :
        /\ k.err # "none" => k.ns = 6
        /\ k.err = "getRedirectTarget" => k.target # NoPage}
\* The enumeration: page i is the i-th it gives, of kind src[i].
UsingArgs ==
    [op : {"using_pages"},
     src : UNION {[1..n -> UsingKinds] : n \in 0..MaxUsing},
     total : {NoTotal} \cup (0..MaxUsing)]

\* The test of lines 200-204 on a page of kind k, where a query that fails
\* passes control to the except clause: TRUE when the page is yielded.
UsingTest(k) ==
    IF k.ns # 6 THEN TRUE
    ELSE IF k.err = "isRedirectPage" THEN TRUE
    ELSE IF k.target = NoPage THEN TRUE
    ELSE IF k.err = "getRedirectTarget" THEN TRUE
    ELSE k.target # SelfFile

\* using_loop with the total tested after the page is counted and yielded.
RECURSIVE using_loop_late(_, _, _, _)
using_loop_late(src, i, total, count) ==
    IF i > Len(src) THEN <<>>
    ELSE IF UsingTest(src[i])
    THEN IF total # NoTotal /\ total # 0 /\ count > total THEN <<i>>
         ELSE <<i>> \o using_loop_late(src, i + 1, total, count + 1)
    ELSE using_loop_late(src, i + 1, total, count)

RECURSIVE using_loop(_, _, _, _)
\* for page in super().using_pages(**kwargs): ..., from page i on with count
\* pages yielded so far: the pages yielded from here on.
using_loop(src, i, total, count) ==
    IF i > Len(src) THEN <<>>
    ELSE IF total # NoTotal /\ total # 0 /\ count >= total THEN <<>>
    ELSE IF UsingTest(src[i])
    THEN <<i>> \o using_loop(src, i + 1, total, count + 1)
    ELSE using_loop(src, i + 1, total, count)

using_pages(a) == using_loop(a.src, 1, a.total, 0)

\* list(file_page.using_pages(total=total))
UsingPages ==
    /\ arg.op = "using_pages" /\ ~ret.done
    /\ ret' = [done |-> TRUE, out |-> using_pages(arg)]
    /\ UNCHANGED <<exists, redir, fault, transcl, cache, last, arg>>

UsingInit ==
    /\ exists = {} /\ redir = [p \in Pages |-> NoPage]
    /\ fault = NoFault /\ transcl = {} /\ cache = <<>> /\ last = NoOp
    /\ arg \in UsingArgs
    /\ ret = NoRet

UsingNext == UsingPages

UsingSpec == UsingInit /\ [][UsingNext]_vars

\* -------------------------------------------------- Page.save_bot_start_end
\* A text is a sequence of tokens: the comment delimiters, the marker words
\* in two spellings each, whitespace, a letter and a backslash.
IsWs(c) == c \in {" ", "\n"}
\* re.I: the marker words match in any case.
Lower(c) ==
    IF c = "BOT START" THEN "bot start"
    ELSE IF c = "Bot End" THEN "bot end"
    ELSE c
Chunks ==
    { <<"<!--", "bot start", "-->">>,
      <<"<!--", " ", "BOT START", "\n", "-->">>,
      <<"<!--", "bot end", "-->">>,
      <<"<!--", "Bot End", " ", "-->">>,
      <<"<!--", "x", "bot start", "-->">>,
      <<"<!--", "bot end">>,
      <<"x">>,
      <<"\n">> }
RECURSIVE Concat(_)
Concat(ss) == IF ss = <<>> THEN <<>> ELSE Head(ss) \o Concat(Tail(ss))
PageTexts ==
    {Concat(cs) : cs \in UNION {[1..n -> Chunks] : n \in 0..MaxChunks}}
NewTexts == UNION {[1..n -> {" ", "x", "\\"}] : n \in 0..MaxText}
SaveArgs ==
    [op : {"save_bot_start_end"}, old : PageTexts, text : NewTexts,
     exists : BOOLEAN, force : BOOLEAN]

RECURSIVE SkipWs(_, _)
\* \s* from position i: the position of the first token that is no whitespace.
SkipWs(t, i) ==
    IF i <= Len(t) /\ IsWs(t[i]) THEN SkipWs(t, i + 1) ELSE i
\* <!--\s*word\s*--> at position i: the position after it, 0 when it does
\* not match there.
MarkerAt(t, i, word) ==
    IF i > Len(t) \/ t[i] # "<!--" THEN 0
    ELSE LET j == SkipWs(t, i + 1)
         IN  IF j > Len(t) \/ Lower(t[j]) # word THEN 0
             ELSE LET k == SkipWs(t, j + 1)
                  IN  IF k > Len(t) \/ t[k] # "-->" THEN 0 ELSE k + 1
RECURSIVE LazyEnd(_, _)
\* (.*?)(<!--\s*bot end\s*-->.*)$ from position q: where group 3 starts, 0
\* when there is no match.
LazyEnd(t, q) ==
    IF q > Len(t) THEN 0
    ELSE IF MarkerAt(t, q, "bot end") # 0 THEN q
    ELSE LazyEnd(t, q + 1)
NoMatch == [matched |-> FALSE, g1 |-> <<>>, g3 |-> <<>>]
RECURSIVE GreedyStart(_, _)
\* LazyStart with the first group taking as much as it can.
GreedyStart(t, p) ==
    LET n == Len(t) + 1 - p
        e == MarkerAt(t, n, "bot start")
        q == IF e = 0 THEN 0 ELSE LazyEnd(t, e)
    IN  IF n < 1 THEN NoMatch
        ELSE IF q # 0
        THEN [matched |-> TRUE, g1 |-> SubSeq(t, 1, e - 1),
              g3 |-> SubSeq(t, q, Len(t))]
        ELSE GreedyStart(t, p + 1)
RECURSIVE LazyStart(_, _)
\* ^(.*?<!--\s*bot start\s*-->) with .*? taking p - 1 tokens, then the rest
\* of the pattern; the next p is tried when the rest does not match.
LazyStart(t, p) ==
    LET e == MarkerAt(t, p, "bot start")
        q == IF e = 0 THEN 0 ELSE LazyEnd(t, e)
    IN  IF p > Len(t) THEN NoMatch
        ELSE IF q # 0
        THEN [matched |-> TRUE, g1 |-> SubSeq(t, 1, e - 1),
              g3 |-> SubSeq(t, q, Len(t))]
        ELSE LazyStart(t, p + 1)
BOT_START_END_match(t) == LazyStart(t, 1)

RECURSIVE lstrip(_)
lstrip(t) == IF t # <<>> /\ IsWs(Head(t)) THEN lstrip(Tail(t)) ELSE t
RECURSIVE rstrip(_)
rstrip(t) ==
    IF t # <<>> /\ IsWs(t[Len(t)]) THEN rstrip(SubSeq(t, 1, Len(t) - 1)) ELSE t
strip(t) == rstrip(lstrip(t))

\* The page text after the call, and whether the page was saved.
save_bot_start_end(a) ==
    IF ~a.force /\ ~a.exists THEN [saved |-> FALSE, text |-> a.old]
    ELSE LET text == strip(a.text)
             match_ == BOT_START_END_match(a.old)
         IN  IF match_.matched
             THEN [saved |-> TRUE,
                   text |-> match_.g1 \o <<"\n">> \o text \o match_.g3]
             ELSE [saved |-> TRUE, text |-> text]

\* test_page.save_bot_start_end(text, force=force)
SaveBotStartEnd ==
    /\ arg.op = "save_bot_start_end" /\ ~ret.done
    /\ \E r \in {save_bot_start_end(arg)} :
          ret' = [done |-> TRUE, saved |-> r.saved, text |-> r.text]
    /\ UNCHANGED <<exists, redir, fault, transcl, cache, last, arg>>

SaveInit ==
    /\ exists = {} /\ redir = [p \in Pages |-> NoPage]
    /\ fault = NoFault /\ transcl = {} /\ cache = <<>> /\ last = NoOp
    /\ arg \in SaveArgs
    /\ ret = NoRet

SaveNext == SaveBotStartEnd

SaveSpec == SaveInit /\ [][SaveNext]_vars

\* ------------------------------------------------ textlib.iterable_to_wikitext
\* An item: a string, None, or a page with its namespace and title. A text
\* is a sequence of tokens, the empty string being <<>>.
ItemValues ==
    { [t |-> "str", ns |-> 0, title |-> "foo"],
      [t |-> "none", ns |-> 0, title |-> ""],
      [t |-> "page", ns |-> 0, title |-> "Foo"],
      [t |-> "page", ns |-> 6, title |-> "File:Bar.png"] }
\* What is handed over as items: a sequence (list, tuple: it has a length and
\* every iteration starts anew), an iterable without a length whose every
\* iteration starts anew, or an iterator (generator), which gives each item
\* once; pos is the number of items an iterator has given so far.
IterableKinds == {"sequence", "iterable", "iterator"}
Iterables ==
    [kind : IterableKinds,
     items : UNION {[1..n -> ItemValues] : n \in 0..MaxItems},
     pos : {0}]
Prefixes == {<<"\n* ">>, <<", ">>, <<>>}
WikitextArgs == [op : {"iterable_to_wikitext"}, it : Iterables, prefix : Prefixes]

\* bool(items): the length of a sequence; an object with neither __bool__
\* nor __len__ is true.
Truth(it) == IF it.kind = "sequence" THEN Len(it.items) # 0 ELSE TRUE
\* One iteration over items to its end: the items it gives and the object
\* afterwards.
Iterate(it) ==
    IF it.kind = "iterator"
    THEN [out |-> SubSeq(it.items, it.pos + 1, Len(it.items)),
          it |-> [it EXCEPT !.pos = Len(it.items)]]
    ELSE [out |-> it.items, it |-> it]
\* item.title(as_link=True, textlink=True): a file page is linked with a
\* leading colon.
title_as_link(item) ==
    IF item.ns = 6 THEN <<"[[", ":", item.title, "]]">>
    ELSE <<"[[", item.title, "]]">>
\* f"{item}" after the isinstance test.
Render(item) ==
    IF item.t = "page" THEN title_as_link(item)
    ELSE IF item.t = "none" THEN <<"None">>
    ELSE <<item.title>>
RECURSIVE RenderLoop(_, _)
\* for item in items: text += f"{prefix}{item}"
RenderLoop(out, prefix) ==
    IF out = <<>> THEN <<>>
    ELSE prefix \o Render(Head(out)) \o RenderLoop(Tail(out), prefix)

iterable_to_wikitext(it, prefix) ==
    IF ~Truth(it) THEN <<>>
    ELSE LET counted == Iterate(it)                    \* list(items)
             prefix1 == IF Len(counted.out) = 1 THEN <<>> ELSE prefix
             looped == Iterate(counted.it)             \* for item in items
         IN  RenderLoop(looped.out, prefix1)

\* textlib.iterable_to_wikitext(items, prefix=prefix)
IterableToWikitext ==
    /\ arg.op = "iterable_to_wikitext" /\ ~ret.done
    /\ ret' = [done |-> TRUE, text |-> iterable_to_wikitext(arg.it, arg.prefix)]
    /\ UNCHANGED <<exists, redir, fault, transcl, cache, last, arg>>

TextInit ==
    /\ exists = {} /\ redir = [p \in Pages |-> NoPage]
    /\ fault = NoFault /\ transcl = {} /\ cache = <<>> /\ last = NoOp
    /\ arg \in WikitextArgs
    /\ ret = NoRet

TextNext == IterableToWikitext

TextSpec == TextInit /\ [][TextNext]_vars

\* ------------------------------------------------ what the claims speak of
\* The pages on the redirect chain from p: chain[0] = p, chain[i + 1] the
\* page chain[i] redirects to (the page itself once the chain has ended).
ChainAt(p) ==
    LET ch[i \in 0..NPages] ==
            IF i = 0 THEN p
            ELSE IF redir[ch[i - 1]] = NoPage THEN ch[i - 1] ELSE redir[ch[i - 1]]
    IN  ch
\* A seed has a canonical target when its chain reaches a page that is no
\* redirect: the chain has no cycle.
HasCanonical(seed) == \E i \in 0..NPages : redir[ChainAt(seed)[i]] = NoPage
Canonical(seed) ==
    ChainAt(seed)[CHOOSE i \in 0..NPages : redir[ChainAt(seed)[i]] = NoPage]
\* The pages the collaborator enumerates as redirecting to t under ns.
RedirectingTo(t, ns) == {q \in Pages : redir[q] = t /\ (ns = None \/ nsOf(q) = ns)}

Computed == last.op = "get_redirects" /\ ~last.hit

\* C1: a computed get_redirects call on a wiki without cycles and without
\* failures returns exactly the union, over the seeds whose canonical target
\* exists, of the target and the pages redirecting to it under the filter.
C1_ClosureIsUnion ==
    (Computed /\ fault = NoFault /\ \A s \in last.key.pages : HasCanonical(s))
    => /\ last.st = "ok"
       /\ last.result =
            UNION {{Canonical(s)} \cup RedirectingTo(Canonical(s), last.key.namespaces) :
                     s \in {x \in last.key.pages : Canonical(x) \in exists}}

\* Two seeds share an existing canonical target, a third page redirects to
\* it from a namespace the filter leaves out, and a seed's target is missing.
C1_Witness ==
    /\ Computed /\ fault = NoFault /\ last.st = "ok"
    /\ \A s \in last.key.pages : HasCanonical(s)
    /\ \E a, b \in last.key.pages :
         /\ a # b /\ Canonical(a) = Canonical(b) /\ Canonical(a) \in exists
         /\ Canonical(a) \notin {a, b}
    /\ last.key.namespaces = 10
    /\ \E q \in Pages : redir[q] # NoPage /\ q \notin last.result

C1_WitnessMissing ==
    /\ Computed /\ fault = NoFault /\ last.st = "ok"
    /\ \E a, b \in last.key.pages :
         /\ HasCanonical(a) /\ HasCanonical(b)
         /\ Canonical(a) \notin exists /\ Canonical(b) \in exists
         /\ RedirectingTo(Canonical(a), None) # {}
    /\ last.result # {}


\* Where following the chain from a seed stops: at the first page that is no
\* redirect, or at which the collaborator answers with CircularRedirectError.
StopsAt(p) ==
    \/ FaultAt("isRedirectPage", p) = "circular"
    \/ redir[p] = NoPage
    \/ FaultAt("getRedirectTarget", p) = "circular"
Stops(seed) == \E i \in 0..NPages : StopsAt(ChainAt(seed)[i])
Final(seed) ==
    ChainAt(seed)[CHOOSE i \in 0..NPages :
                    /\ StopsAt(ChainAt(seed)[i])
                    /\ \A j \in 0..(i - 1) : ~StopsAt(ChainAt(seed)[j])]
\* What a seed that stops at t adds: nothing when t does not exist, else t
\* and the redirects to t, those enumerated before the failure when the
\* enumeration fails.
Gathered(t, ns) ==
    IF t \notin exists THEN {}
    ELSE IF FaultAt("redirects", t) = "circular"
    THEN {t} \cup {q \in RedirectingTo(t, ns) :
                     Cardinality({r \in RedirectingTo(t, ns) : r < q}) < FaultAfter}
    ELSE {t} \cup RedirectingTo(t, ns)
\* The collaborator fails with nothing but CircularRedirectError, and only
\* while a chain is followed or the redirects are enumerated.
CircularOnly ==
    \/ fault = NoFault
    \/ fault.kind = "circular" /\ fault.op \in {"isRedirectPage", "getRedirectTarget", "redirects"}

\* C5: a CircularRedirectError of the collaborator, raised while a chain is
\* followed or the redirects are enumerated, never reaches the caller; when
\* every chain stops, the call returns, the page reached at the failure
\* counts as the seed's final page, the pages gathered before the failure
\* stay and every seed is processed.
C5_CircularSuppressed ==
    (last.op = "get_redirects" /\ CircularOnly)
    => /\ last.st # "raise"
       /\ (~last.hit /\ \A s \in last.key.pages : Stops(s))
          => /\ last.st = "ok"
             /\ last.result =
                  UNION {Gathered(Final(s), last.key.namespaces) : s \in last.key.pages}
             /\ \A s \in last.key.pages :
                  (redir[s] = s /\ s \in exists) => s \in last.result

\* The enumeration of the redirects to a page fails after its first page,
\* a seed redirects to itself, and two seeds are processed.
C5_Witness ==
    /\ Computed /\ last.st = "ok"
    /\ fault.kind = "circular" /\ fault.op = "redirects"
    /\ fault.page \in last.result
    /\ \E q \in Pages : redir[q] = fault.page /\ q \notin last.result
    /\ \E q \in Pages : redir[q] = fault.page /\ q # fault.page /\ q \in last.result
    /\ Cardinality(last.key.pages) = 2
    /\ \E s \in last.key.pages : redir[s] = s /\ s \in last.result

\* C6: every get_redirects call ends.
C6_Terminates == last.st # "hang"


\* The closure of a key on the wiki as it is now.
ClosureNow(key) == UNION {Gathered(Final(s), key.namespaces) : s \in key.pages}
OnlyExisting ==
    /\ last.result \subseteq exists
    /\ \A s \in last.key.pages :
         HasCanonical(s) => (Canonical(s) \in last.result <=> Canonical(s) \in exists)

\* C2 as stated: whatever calls, changes of the wiki and cache clears came
\* before, a get_redirects call returns only pages that exist when it is made,
\* and a seed's canonical target if and only if that target exists then.
C2_OnlyExistingPages ==
    (last.op = "get_redirects" /\ last.st = "ok" /\ ~last.stale) => OnlyExisting

\* C2, amended: this holds of every call that is computed; a call answered
\* from the cache returns what was computed when the entry was stored.
C2_ComputedOnlyExisting ==
    (Computed /\ last.st = "ok" /\ ~last.stale) => OnlyExisting

\* A call recomputed after a change of the wiki and a cache clear: one seed's
\* canonical target is missing, another seed's target is returned.
C2_Witness ==
    /\ Computed /\ last.st = "ok" /\ ~last.stale /\ last.afterClear = "changed"
    /\ \E s \in last.key.pages : HasCanonical(s) /\ Canonical(s) \notin exists
    /\ \E s \in last.key.pages :
         HasCanonical(s) /\ Canonical(s) # s /\ Canonical(s) \in last.result

C4_ClearForcesRecompute ==
    (last.op = "get_redirects" /\ last.afterClear # "no")
    => /\ ~last.hit
       /\ (last.key.pages # {} => last.queried)
       /\ (last.st = "ok" /\ ~last.stale) => last.result = ClosureNow(last.key)

\* The key had an entry before the clear, and the call returns another set.
C4_Witness ==
    /\ last.op = "get_redirects" /\ last.afterClear = "changed"
    /\ last.st = "ok" /\ ~last.stale /\ last.queried /\ last.result # {}

\* Whether a computed call for key puts the query op to page p.
OnChain(s, p) ==
    \E i \in 0..NPages :
        /\ ChainAt(s)[i] = p
        /\ \A j \in 0..(i - 1) : ~StopsAt(ChainAt(s)[j])
Queried(op, p, key) ==
    \E s \in key.pages :
        \/ op = "isRedirectPage" /\ OnChain(s, p)
        \/ op = "getRedirectTarget" /\ OnChain(s, p) /\ redir[p] # NoPage
        \/ op = "exists" /\ Stops(s) /\ Final(s) = p
        \/ op = "redirects" /\ Stops(s) /\ Final(s) = p /\ p \in exists
\* Following the chain from s ends: at a page it stops at, or at the failure.
FailsAt(p) ==
    /\ fault.kind = "other" /\ fault.page = p
    /\ fault.op = "isRedirectPage" \/ (fault.op = "getRedirectTarget" /\ redir[p] # NoPage)
Ends(s) == \E i \in 0..NPages : StopsAt(ChainAt(s)[i]) \/ FailsAt(ChainAt(s)[i])

\* C7: a failure of the collaborator that is no CircularRedirectError, met
\* by a query of get_redirects or of has_template, ends the call with that
\* failure: no result is returned, and none is stored.
C7_OtherFailurePropagates ==
    (last.op \in {"get_redirects", "has_template"} /\ fault.kind = "other"
        /\ \A s \in last.key.pages : Ends(s))
    => /\ (~last.hit /\ Queried(fault.op, fault.page, last.key))
          => /\ last.st = "raise" /\ last.result = {} /\ ~last.answer
             /\ last.key \notin CachedKeys(cache)
       /\ (last.op = "has_template" /\ fault.op = "templates")
          => last.st = "raise" /\ ~last.answer

\* has_template fails with the failure of the enumeration of the redirects
\* to the second of its templates.
C7_Witness ==
    /\ last.op = "has_template" /\ last.st = "raise"
    /\ fault.kind = "other" /\ fault.op = "redirects"
    /\ Cardinality(last.key.pages) = 2
    /\ \E s \in last.key.pages : Final(s) # fault.page /\ Final(s) \in exists

\* C8 as stated: has_template is true if and only if one of the templates,
\* or a page redirecting to it, is among the templates the page transcludes.
C8_TemplateOrItsRedirect ==
    (last.op = "has_template" /\ last.st = "ok")
    => (last.answer <=>
          \E t \in last.key.pages :
              t \in transcl \/ \E q \in Pages : redir[q] = t /\ q \in transcl)

\* C8, amended: with the closure computed, has_template is true if and only
\* if, for one of the templates, the page its redirect chain ends at exists
\* and that page, or a page redirecting to it, is among the templates the
\* page transcludes.
C8_CanonicalOrItsRedirect ==
    (last.op = "has_template" /\ last.st = "ok" /\ ~last.hit)
    => (last.answer <=>
          \E t \in last.key.pages :
              /\ Final(t) \in exists
              /\ ({Final(t)} \cup RedirectingTo(Final(t), None)) \cap transcl # {})

\* The template asked for is a redirect, and the page transcludes its target
\* but neither the template nor a redirect to it.
C8_Witness ==
    /\ last.op = "has_template" /\ last.st = "ok" /\ ~last.hit /\ last.answer
    /\ \A t \in last.key.pages :
         /\ redir[t] \notin {NoPage, t}
         /\ t \notin transcl
         /\ \A q \in Pages : redir[q] = t => q \notin transcl


\* The pages of the enumeration that satisfy Test, in its order.
Selected(src, Test(_)) ==
    LET idx == {i \in 1..Len(src) : Test(src[i])}
    IN  [n \in 1..Cardinality(idx) |->
            CHOOSE i \in idx : Cardinality({j \in idx : j <= i}) = n]
FirstN(seq, total) ==
    IF total \in {NoTotal, 0} \/ total >= Len(seq) THEN seq ELSE SubSeq(seq, 1, total)
\* A file redirect whose target is this file.
SelfRedirect(k) == k.ns = 6 /\ k.target = SelfFile
NotSelfRedirect(k) == ~SelfRedirect(k)
\* The collaborator fails while the page's redirect or its target is read.
Unreadable(k) == k.ns = 6 /\ k.err # "none"
ReadableSelfRedirect(k) == SelfRedirect(k) /\ ~Unreadable(k)
NotReadableSelfRedirect(k) == ~ReadableSelfRedirect(k)

\* C9 as stated: using_pages yields, in order and up to total, the pages that
\* are no file redirect to this file, and never a file redirect to this file.
C9_SkipsSelfRedirects ==
    ret.done /\ arg.op = "using_pages"
    => ret.out = FirstN(Selected(arg.src, NotSelfRedirect), arg.total)

\* C9, amended: a page for which the collaborator raises a pywikibot Error
\* while its redirect status or target is read is yielded and counted like
\* the pages that are no file redirect to this file.
C9_SkipsReadableSelfRedirects ==
    ret.done /\ arg.op = "using_pages"
    => /\ ret.out = FirstN(Selected(arg.src, NotReadableSelfRedirect), arg.total)
       /\ arg.total >= 1 => Len(ret.out) <= arg.total

\* total = 1 reached after a file redirect to this file was passed over, with
\* a file redirect to another file yielded and a page left unread.
C9_Witness ==
    /\ ret.done /\ arg.op = "using_pages" /\ arg.total = 1
    /\ Len(arg.src) = 3
    /\ ReadableSelfRedirect(arg.src[1])
    /\ arg.src[2].ns = 6 /\ arg.src[2].target = OtherFile /\ arg.src[2].err = "none"
    /\ arg.src[3].ns = 0
    /\ ret.out = <<2>>


\* Tokens i..k of t are a marker for word: the delimiters around the word,
\* with nothing but whitespace between them and it.
IsMarker(t, i, k, word) ==
    /\ 1 <= i /\ i < k /\ k <= Len(t)
    /\ t[i] = "<!--" /\ t[k] = "-->"
    /\ \E j \in (i + 1)..(k - 1) :
          /\ Lower(t[j]) = word
          /\ \A m \in ((i + 1)..(k - 1)) \ {j} : IsWs(t[m])
\* The places <<i, k>> of the markers for word in t.
MarkersOf(t, word) ==
    {ik \in (1..Len(t)) \X (1..Len(t)) : IsMarker(t, ik[1], ik[2], word)}
\* A start marker with an end marker somewhere after it.
HasPair(t) ==
    \E s \in MarkersOf(t, "bot start") :
        \E e \in MarkersOf(t, "bot end") : e[1] > s[2]
FirstStart(t) ==
    CHOOSE s \in MarkersOf(t, "bot start") :
        \A o \in MarkersOf(t, "bot start") : s[1] <= o[1]
FirstEndAfter(t, k) ==
    CHOOSE e \in MarkersOf(t, "bot end") :
        /\ e[1] > k
        /\ \A o \in MarkersOf(t, "bot end") : o[1] > k => e[1] <= o[1]
\* t without its leading and trailing whitespace.
Stripped(t) ==
    LET ink == {i \in 1..Len(t) : ~IsWs(t[i])}
    IN  IF ink = {} THEN <<>>
        ELSE SubSeq(t, CHOOSE i \in ink : \A j \in ink : i <= j,
                       CHOOSE i \in ink : \A j \in ink : i >= j)
Saving == ret.done /\ arg.op = "save_bot_start_end" /\ (arg.exists \/ arg.force)

\* C10: when the page exists or force is set, a page text with a start marker
\* followed later by an end marker becomes the old text through the first
\* start marker, a newline, the stripped text as given, and the old text from
\* the first end marker after that start marker on; any other page text
\* becomes the stripped text.
C10_OnlyBotRegionChanges ==
    Saving =>
        /\ ret.saved
        /\ IF HasPair(arg.old)
           THEN LET s == FirstStart(arg.old)
                    e == FirstEndAfter(arg.old, s[2])
                IN  ret.text = SubSeq(arg.old, 1, s[2]) \o <<"\n">>
                               \o Stripped(arg.text)
                               \o SubSeq(arg.old, e[1], Len(arg.old))
           ELSE ret.text = Stripped(arg.text)

\* A page text with two start markers before an end marker, saved with a text
\* that holds a backslash inside surrounding whitespace.
C10_Witness ==
    /\ Saving /\ arg.exists /\ ~arg.force
    /\ Cardinality(MarkersOf(arg.old, "bot start")) = 2
    /\ HasPair(arg.old)
    /\ FirstStart(arg.old)[2] = 5
    /\ arg.text = <<" ", "\\", " ">>
    /\ ret.text = SubSeq(arg.old, 1, 5) \o <<"\n", "\\">>
                  \o SubSeq(arg.old, 9, 11)

\* Two end markers after the start marker: the region ends at the first.
C10_WitnessFirstEnd ==
    /\ Saving
    /\ Cardinality(MarkersOf(arg.old, "bot end")) = 2
    /\ MarkersOf(arg.old, "bot start") = {<<1, 3>>}
    /\ arg.text = <<"x", " ", "x">>
    /\ ret.text = SubSeq(arg.old, 1, 3) \o <<"\n", "x", " ", "x">>
                  \o SubSeq(arg.old, 4, Len(arg.old))

\* The rendering of one item: a page as the link to its title, anything else
\* as its string representation.
Rendering(item) ==
    CASE item.t = "page" /\ item.ns = 6 -> <<"[[", ":", item.title, "]]">>
      [] item.t = "page" /\ item.ns # 6 -> <<"[[", item.title, "]]">>
      [] item.t = "none" -> <<"None">>
      [] OTHER -> <<item.title>>
\* prefix and rendering of items 1..n, in order.
RECURSIVE Prefixed(_, _, _)
Prefixed(items, prefix, n) ==
    IF n = 0 THEN <<>>
    ELSE Prefixed(items, prefix, n - 1) \o prefix \o Rendering(items[n])
Wikitext(items, prefix) ==
    IF Len(items) = 0 THEN <<>>
    ELSE IF Len(items) = 1 THEN Rendering(items[1])
    ELSE Prefixed(items, prefix, Len(items))
Rendered == ret.done /\ arg.op = "iterable_to_wikitext"

\* C11: for every iterable of items, iterated repeatedly or only once, and
\* every prefix, iterable_to_wikitext returns the empty string for no item,
\* the rendering of the item without prefix for one item, and for two or more
\* items the concatenation in order of prefix and rendering of each item.
C11_RendersEveryItem ==
    Rendered => ret.text = Wikitext(arg.it.items, arg.prefix)

\* The same for the iterables whose every iteration starts anew.
C11_RendersRepeatable ==
    Rendered /\ arg.it.kind # "iterator"
    => ret.text = Wikitext(arg.it.items, arg.prefix)

\* An iterator of at least one item gives the empty string.
C11_IteratorGivesNothing ==
    Rendered /\ arg.it.kind = "iterator" => ret.text = <<>>

\* Three items of a list, two of them pages, rendered with the bullet prefix.
C11_WitnessList ==
    /\ Rendered /\ arg.it.kind = "sequence" /\ Len(arg.it.items) = 3
    /\ arg.prefix = <<"\n* ">>
    /\ ret.text = <<"\n* ", "[[", "Foo", "]]", "\n* ", "None",
                    "\n* ", "[[", ":", "File:Bar.png", "]]">>

\* An iterator of one string, rendered as the empty string.
C11_WitnessIterator ==
    /\ Rendered /\ arg.it.kind = "iterator"
    /\ Len(arg.it.items) = 1 /\ arg.it.items[1].t = "str"
    /\ ret.text = <<>>

====
